---- MODULE Spec2Model ----
(***************************************************************************)
(* A model of main.py: the staging step (collect_data), the loading        *)
(* helpers and the per-metric transform routines of the FitBit export      *)
(* preparation script.                                                     *)
(*                                                                         *)
(* Directories are functions from file names to contents.  A table         *)
(* (DataFrame) is a sequence of rows [index, cols], cols a function from   *)
(* column names to values.  A Python call that can raise returns           *)
(* [ok, val, err].                                                         *)
(***************************************************************************)
EXTENDS Integers, Sequences, FiniteSets, TLC

VARIABLES
    source,   \* raw_data_path / "source": path -> content
    raw,      \* raw_data_path: file name -> content (JSON list or CSV rows)
    out,      \* data_path: output file name -> written table, or Absent
    console,  \* lines printed by the current (or most recent) call
    pc,       \* [routine, status, step, err]: where the interpreter is
    mem,      \* local variables of the running routine
    wrote,    \* output files written by the current (or most recent) call, in order
    last,     \* the most recent finished call: [routine, arg, out, repeat]
    env       \* what the host provides: [denied, union_sorts]

vars == <<source, raw, out, console, pc, mem, wrote, last, env>>

(***************************************************************************)
(* Bounds of the model.                                                    *)
(***************************************************************************)
\* most records over the files of one metric
MaxRecs == 2

(***************************************************************************)
(* JSON scalars.  A string is the sequence of its characters.              *)
(***************************************************************************)
Str(s) == [k |-> "str", s |-> s, n |-> 0]
Num(n) == [k |-> "num", s |-> <<>>, n |-> n]
Null == [k |-> "null", s |-> <<>>, n |-> 0]

\* an output file: not there, or holding the table last written to it
Absent == [exists |-> FALSE, rows |-> <<>>]
NoMem == [arg |-> "", json_data |-> <<>>, df |-> <<>>]
Idle == [routine |-> "none", status |-> "idle", step |-> "", err |-> ""]
NoCall == [routine |-> "none", arg |-> "", out |-> <<>>, repeat |-> FALSE]

Ok(v) == [ok |-> TRUE, val |-> v, err |-> ""]
Raise(e) == [ok |-> FALSE, val |-> <<>>, err |-> e]

(***************************************************************************)
(* Timestamps.  The export writes "MM/DD/YY HH:00:00"; a text is the tuple *)
(* <<MM, DD, YY, HH>> of its fields in the order they are written, so the  *)
(* order of the texts is not the order of the instants.  The instants used *)
(* lie in December and January, months of 31 days.                         *)
(***************************************************************************)
Stamps == {<<12, 31, 22, 23>>, <<1, 1, 23, 0>>, <<1, 1, 23, 1>>}
Stamps2 == {<<12, 31, 22, 23>>, <<1, 1, 23, 0>>}

to_datetime(s) == ((s[3] * 12 + (s[1] - 1)) * 31 + (s[2] - 1)) * 24 + s[4]

(***************************************************************************)
(* Files and globbing.  A path below a directory is [dir, stem, tag, ext]: *)
(* "Sleep/steps-<tag>.json" has dir <<"Sleep">> and stem "steps".  sorted() *)
(* orders the paths of one pattern by tag.                                 *)
(***************************************************************************)
File(stem, tag, ext) == [dir |-> <<>>, stem |-> stem, tag |-> tag, ext |-> ext]

\* dir.glob("<stem>-*.<ext>"): the files of the directory itself
glob(dir, stem, ext) ==
    {f \in DOMAIN dir : f.dir = <<>> /\ f.stem = stem /\ f.ext = ext}

\* dir.glob("**/*.<ext>"): the files of the directory and of all below it
rglob(dir, ext) == {f \in DOMAIN dir : f.ext = ext}

RECURSIVE sorted(_)
First(S) == CHOOSE x \in S : \A y \in S : x.tag <= y.tag
FirstThenRest(f, S) == <<f>> \o sorted(S \ {f})
sorted(S) == IF S = {} THEN <<>> ELSE FirstThenRest(First(S), S)

\* the sequence s itself, enumerated once
Rows(s) == s \o <<>>

(***************************************************************************)
(* Loading helpers.                                                        *)
(***************************************************************************)
file_to_json(infile_path) == raw[infile_path]

RECURSIVE sum(_, _)
sum_reversed(lists, start) ==
    IF lists = <<>> THEN start ELSE sum(Tail(lists), Head(lists) \o start)
sum(lists, start) ==
    IF lists = <<>> THEN start ELSE sum(Tail(lists), start \o Head(lists))

files_to_json(file_list) ==
    sum(Rows([i \in 1..Len(file_list) |-> file_to_json(file_list[i])]), <<>>)

\* pd.json_normalize of a list of flat records: one row per record, RangeIndex
json_normalize(records) ==
    Rows([i \in 1..Len(records) |-> [index |-> i - 1, cols |-> records[i]]])

Columns(df) == UNION {DOMAIN df[i].cols : i \in 1..Len(df)}

NewName(columns, c) == IF c \in DOMAIN columns THEN columns[c] ELSE c

rename(df, columns) ==
    Rows([i \in 1..Len(df) |->
            [index |-> df[i].index,
             cols |-> [n \in {NewName(columns, c) : c \in DOMAIN df[i].cols} |->
                          df[i].cols[CHOOSE c \in DOMAIN df[i].cols :
                                         NewName(columns, c) = n]]]])

\* df[col] = pd.to_datetime(df[col]); a null stays null (NaT)
to_datetime_col(df, col) ==
    Rows([i \in 1..Len(df) |->
            [df[i] EXCEPT !.cols[col] =
                IF @ = Null THEN Null ELSE to_datetime(@)]])

Without(f, c) == [x \in DOMAIN f \ {c} |-> f[x]]

set_index(df, col) ==
    Rows([i \in 1..Len(df) |->
            [index |-> df[i].cols[col], cols |-> Without(df[i].cols, col)]])

RECURSIVE Insert(_, _)
Insert(s, r) ==
    IF s = <<>> THEN <<r>>
    ELSE IF r.index < Head(s).index THEN <<r>> \o s
    ELSE <<Head(s)>> \o Insert(Tail(s), r)

RECURSIVE SortFrom(_, _)
SortFrom(df, acc) ==
    IF df = <<>> THEN acc ELSE SortFrom(Tail(df), Insert(acc, Head(df)))

sort_index_none(df) == df
sort_index(df) == SortFrom(df, <<>>)

\* df[mask]: the rows whose mask is true, in their order
Take(df, idx) == Rows([j \in 1..Len(idx) |-> df[idx[j]]])
BoolIndex(df, mask) ==
    Take(df, SelectSeq([i \in 1..Len(df) |-> i], LAMBDA i : mask[i]))

\* lines 68-71 of files_to_df, on the renamed table df
DatetimeIndexed(df, datetime) ==
    IF ~datetime THEN Ok(df)
    ELSE IF "datetime" \notin Columns(df) THEN Raise("AttributeError")
    ELSE Ok(sort_index(set_index(to_datetime_col(df, "datetime"), "datetime")))

files_to_df(file_list, columns, datetime) ==
    DatetimeIndexed(rename(json_normalize(files_to_json(file_list)), columns),
                    datetime)

(***************************************************************************)
(* Calls.  The script calls one routine, the call left uncommented at the  *)
(* bottom of main.py; an uncaught exception ends the run, and the script   *)
(* can be run again, which calls the same routine with the same argument.  *)
(***************************************************************************)
Callable(routine, arg) ==
    /\ pc.status # "running"
    /\ pc.routine = "none" \/ (pc.routine = routine /\ last.arg = arg)

log(message) == <<message>>

Finish(routine, arg, status, err, out2, console2, wrote2) ==
    /\ pc' = [routine |-> routine, status |-> status, step |-> "", err |-> err]
    /\ out' = out2
    /\ console' = console2
    /\ wrote' = wrote2
    /\ mem' = NoMem
    /\ last' = [routine |-> routine, arg |-> arg, out |-> out2,
                repeat |-> last.routine = routine /\ last.arg = arg]
    /\ UNCHANGED <<source, raw, env>>

\* the file at path after it is opened for writing and the table is written
to_csv_append(old, table) == [exists |-> TRUE, rows |-> old.rows \o table]
to_csv(old, table) == [exists |-> TRUE, rows |-> table]

\* a routine that builds one table and writes it to one file
WriteOne(routine, started, res, path, ready) ==
    IF ~res.ok
    THEN Finish(routine, "", "error", res.err, out, log(started), <<>>)
    ELSE IF path \in env.denied
    THEN Finish(routine, "", "error", "PermissionError", out, log(started), <<>>)
    ELSE Finish(routine, "", "done", "", [out EXCEPT ![path] = to_csv(@, res.val)],
                log(started) \o log(ready), <<path>>)

(***************************************************************************)
(* (D.3.1) Steps and distance.                                             *)
(***************************************************************************)
\* Series.eq(text): true of the string with exactly these characters
eq_numeric(v, text) == (v.k = "str" /\ v.s = text) \/ (v.k = "num" /\ v.n = 0)
eq(v, text) == v.k = "str" /\ v.s = text

NonZero(res, col) ==
    IF ~res.ok THEN res
    ELSE Ok(BoolIndex(res.val,
                      [i \in 1..Len(res.val) |-> ~eq(res.val[i].cols[col], <<"0">>)]))

prep_steps_data ==
    /\ Callable("prep_steps_data", "")
    /\ WriteOne("prep_steps_data",
                "Processing steps-YYYY-MM-DD.json files ...",
                NonZero(files_to_df(sorted(glob(raw, "steps", "json")),
                                    [dateTime |-> "datetime", value |-> "number"],
                                    TRUE),
                        "number"),
                "activity_steps.csv", "File activity_steps.csv ready")

prep_distance_data ==
    /\ Callable("prep_distance_data", "")
    /\ WriteOne("prep_distance_data",
                "Processing distance-YYYY-MM-DD.json files ...",
                NonZero(files_to_df(sorted(glob(raw, "distance", "json")),
                                    [dateTime |-> "datetime", value |-> "distance"],
                                    TRUE),
                        "distance"),
                "activity_distance.csv", "File activity_distance.csv ready")

(***************************************************************************)
(* Routines that write several files run step by step: pc.step names the   *)
(* statement the interpreter is at.                                        *)
(***************************************************************************)
At(routine, step) ==
    pc.routine = routine /\ pc.status = "running" /\ pc.step = step

\* what a routine holds once its inputs are read: the JSON list and the table
Loaded(json_data, res) ==
    IF ~res.ok THEN res ELSE Ok([json_data |-> json_data, df |-> res.val])

Begin(routine, arg, printed, res, step) ==
    IF ~res.ok
    THEN Finish(routine, arg, "error", res.err, out, printed, <<>>)
    ELSE /\ pc' = [routine |-> routine, status |-> "running", step |-> step,
                   err |-> ""]
         /\ mem' = [arg |-> arg, json_data |-> res.val.json_data, df |-> res.val.df]
         /\ console' = printed
         /\ wrote' = <<>>
         /\ UNCHANGED <<source, raw, out, last, env>>

\* the statements that build a table and write it: res is the table or the
\* exception raised on the way, json_data the list they leave in memory
WriteStep_proceeding(path, res, json_data, step) ==
    IF ~res.ok \/ path \in env.denied
    THEN /\ pc' = [pc EXCEPT !.step = step]
         /\ UNCHANGED <<source, raw, out, console, mem, wrote, last, env>>
    ELSE /\ out' = [out EXCEPT ![path] = to_csv(@, res.val)]
         /\ wrote' = Append(wrote, path)
         /\ pc' = [pc EXCEPT !.step = step]
         /\ mem' = [mem EXCEPT !.json_data = json_data]
         /\ UNCHANGED <<source, raw, console, last, env>>
WriteStep(path, res, json_data, step) ==
    IF ~res.ok
    THEN Finish(pc.routine, mem.arg, "error", res.err, out, console, wrote)
    ELSE IF path \in env.denied
    THEN Finish(pc.routine, mem.arg, "error", "PermissionError", out, console, wrote)
    ELSE /\ out' = [out EXCEPT ![path] = to_csv(@, res.val)]
         /\ wrote' = Append(wrote, path)
         /\ pc' = [pc EXCEPT !.step = step]
         /\ mem' = [mem EXCEPT !.json_data = json_data]
         /\ UNCHANGED <<source, raw, console, last, env>>

LogStep(message, step) ==
    /\ console' = console \o log(message)
    /\ pc' = [pc EXCEPT !.step = step]
    /\ UNCHANGED <<source, raw, out, mem, wrote, last, env>>

LogAndReturn(message) ==
    Finish(pc.routine, mem.arg, "done", "", out, console \o log(message), wrote)

(***************************************************************************)
(* (D.1.1) Heart rate: one file per day with several data points.          *)
(***************************************************************************)
heart_columns ==
    [c \in {"dateTime", "value.bpm", "value.confidence"} |->
        CASE c = "dateTime" -> "datetime"
          [] c = "value.bpm" -> "bpm"
          [] c = "value.confidence" -> "confidence"]

\* the first failure among the results, or the list of their values
AllOk(results) ==
    IF \E i \in 1..Len(results) : ~results[i].ok
    THEN results[CHOOSE i \in 1..Len(results) :
                    ~results[i].ok /\ \A j \in 1..(i - 1) : results[j].ok]
    ELSE Ok(Rows([i \in 1..Len(results) |-> results[i].val]))

files_to_dfslist(file_list, columns, datetime) ==
    AllOk(Rows([i \in 1..Len(file_list) |->
                   DatetimeIndexed(
                       rename(json_normalize(file_to_json(file_list[i])), columns),
                       datetime)]))

\* pd.concat(dfs, axis="index").sort_index(), and xr.concat(...).sortby(...)
concat_sorted(dfs) ==
    IF ~dfs.ok THEN dfs
    ELSE IF dfs.val = <<>> THEN Raise("ValueError")
    ELSE Ok(sort_index(sum(dfs.val, <<>>)))

RECURSIVE gcd(_, _)
gcd(a, b) == IF b = 0 THEN a ELSE gcd(b, a % b)

RECURSIVE Total(_)
Total(ns) == IF ns = <<>> THEN 0 ELSE Head(ns) + Total(Tail(ns))

Ratio(t, n) == [k |-> "num", s |-> <<>>, n |-> <<t \div gcd(t, n), n \div gcd(t, n)>>]

\* the mean of the numbers vs as a fraction in lowest terms; NaN of none
mean(vs) ==
    IF vs = <<>> THEN Null
    ELSE Ratio(Total(Rows([i \in 1..Len(vs) |-> vs[i].n])), Len(vs))

Bin(df, lo, width) == SelectSeq(df, LAMBDA r : lo <= r.index /\ r.index < lo + width)

Floor(t, width) == t - (t % width)

ColumnOf(rows, c) == Rows([i \in 1..Len(rows) |-> rows[i].cols[c]])

\* df.resample(rule).mean() of a sorted table: every bin from the first row's
\* to the last row's, in hours
resample_mean(df, width) ==
    IF df = <<>> THEN <<>>
    ELSE Rows([j \in 1..((Floor(df[Len(df)].index, width)
                          - Floor(df[1].index, width)) \div width + 1) |->
                 [index |-> Floor(df[1].index, width) + (j - 1) * width,
                  cols |-> [c \in Columns(df) |->
                      mean(ColumnOf(Bin(df, Floor(df[1].index, width)
                                            + (j - 1) * width, width), c))]]])

HeartFiles == sorted(glob(raw, "heart_rate", "json"))

prep_heart_rate_details_xr ==
    /\ Callable("prep_heart_rate_details_xr", "")
    /\ WriteOne("prep_heart_rate_details_xr",
                "Processing heart_rate-YYYY-MM-DD.json files ...",
                concat_sorted(files_to_dfslist(HeartFiles, heart_columns, TRUE)),
                "heart_rate.nc", "File heart_rate.nc ready")

Formats == {"hdf", "csv", "xlsx"}

FormatWarning == "format should be 'hdf' (default) or 'csv'!"

\* lines 124-125
check_fmt(fmt) == IF fmt \notin {"hdf", "csv"} THEN <<FormatWarning>> ELSE <<>>

\* line 139
detail_path_by_default(fmt) == IF fmt = "csv" THEN "heart_rate.csv" ELSE "heart_rate.h5"
detail_path(fmt) == IF fmt = "hdf" THEN "heart_rate.h5" ELSE "heart_rate.csv"

prep_heart_rate_details_load ==
    \E fmt \in Formats :
      /\ Callable("prep_heart_rate_details", fmt)
      /\ Begin("prep_heart_rate_details", fmt,
               check_fmt(fmt) \o log("Processing heart_rate-YYYY-MM-DD.json files ..."),
               Loaded(<<>>, concat_sorted(files_to_dfslist(HeartFiles, heart_columns,
                                                           TRUE))),
               "detail")

prep_heart_rate_details_write ==
    \/ /\ At("prep_heart_rate_details", "detail")
       /\ WriteStep(detail_path(mem.arg), Ok(mem.df), mem.json_data, "detail_ready")
    \/ /\ At("prep_heart_rate_details", "hourly")
       /\ WriteStep("heart_rate_hourly.csv", Ok(resample_mean(mem.df, 1)),
                    mem.json_data, "hourly_ready")
    \/ /\ At("prep_heart_rate_details", "daily")
       /\ WriteStep("heart_rate_daily.csv", Ok(resample_mean(mem.df, 24)),
                    mem.json_data, "daily_ready")

prep_heart_rate_details_log ==
    \/ /\ At("prep_heart_rate_details", "detail_ready")
       /\ LogStep(IF mem.arg = "hdf" THEN "File heart_rate.h5 ready"
                  ELSE "File heart_rate.csv ready", "hourly")
    \/ /\ At("prep_heart_rate_details", "hourly_ready")
       /\ LogStep("File heart_rate_hourly.csv ready", "daily")
    \/ /\ At("prep_heart_rate_details", "daily_ready")
       /\ LogAndReturn("File heart_rate_daily.csv ready")

(***************************************************************************)
(* (D.1.2) Heart-rate zones: one file per day with one data point.         *)
(***************************************************************************)
\* columns_mapper of prep_heart_rate_zoning_data on the columns of the export
zones_columns_mapper ==
    [c \in {"dateTime", "value.valuesInZones.IN_DEFAULT_ZONE_1",
            "value.valuesInZones.BELOW_DEFAULT_ZONE_1"} |->
        CASE c = "dateTime" -> "datetime"
          [] c = "value.valuesInZones.IN_DEFAULT_ZONE_1" -> "in_default_zone_1"
          [] c = "value.valuesInZones.BELOW_DEFAULT_ZONE_1" -> "below_default_zone_1"]

prep_heart_rate_zoning_data ==
    /\ Callable("prep_heart_rate_zoning_data", "")
    /\ WriteOne("prep_heart_rate_zoning_data",
                "Processing time_in_heart_rate_zones_YYYY-MM-DD.json files ...",
                files_to_df(sorted(glob(raw, "time_in_heart_rate_zones", "json")),
                            zones_columns_mapper, TRUE),
                "heart_rate_zones.csv", "File heart_rate_zones.csv ready")

(***************************************************************************)
(* (D.1.3) Resting heart rate: one file per year with daily data points.   *)
(***************************************************************************)
resting_columns_mapper ==
    [c \in {"dateTime", "value.date", "value.value", "value.error"} |->
        CASE c = "dateTime" -> "datetime"
          [] c = "value.date" -> "date"
          [] c = "value.value" -> "value"
          [] c = "value.error" -> "error"]

notna_all(v) == TRUE
notna(v) == v # Null

\* lines 189-194, on the table df that files_to_df returned
RestingTable(df) ==
    IF "date" \notin Columns(df) THEN Raise("AttributeError")
    ELSE Ok(sort_index(set_index(
              to_datetime_col(
                to_datetime_col(
                  BoolIndex(df, [i \in 1..Len(df) |-> notna(df[i].cols["date"])]),
                  "datetime"),
                "date"),
              "datetime")))

prep_heart_rate_resting_data ==
    /\ Callable("prep_heart_rate_resting_data", "")
    /\ WriteOne("prep_heart_rate_resting_data",
                "Processing resting_heart_rate-YYYY-04-17.json files ...",
                RestingTable(files_to_df(sorted(glob(raw, "resting_heart_rate", "json")),
                                         resting_columns_mapper, FALSE).val),
                "heart_rate_resting.csv", "File heart_rate_resting.csv ready")

(***************************************************************************)
(* (D.3.1) Activity levels: four families joined column-wise.              *)
(***************************************************************************)
Levels == <<"sedentary", "lightly_active", "moderately_active", "very_active">>

\* level.replace("_active", "")
LevelColumn(level) ==
    CASE level = "sedentary" -> "sedentary"
      [] level = "lightly_active" -> "lightly"
      [] level = "moderately_active" -> "moderately"
      [] level = "very_active" -> "very"

\* f"{level}_minutes"
LevelStem(level) ==
    CASE level = "sedentary" -> "sedentary_minutes"
      [] level = "lightly_active" -> "lightly_active_minutes"
      [] level = "moderately_active" -> "moderately_active_minutes"
      [] level = "very_active" -> "very_active_minutes"

IndexOf(df) == Rows([i \in 1..Len(df) |-> df[i].index])

HasDuplicates(ix) == \E i, j \in 1..Len(ix) : i # j /\ ix[i] = ix[j]

Range(s) == {s[i] : i \in 1..Len(s)}

RECURSIVE Ascending(_)
Least(S) == CHOOSE x \in S : \A y \in S : x <= y
LeastThenRest(m, S) == <<m>> \o Ascending(S \ {m})
Ascending(S) == IF S = {} THEN <<>> ELSE LeastThenRest(Least(S), S)

\* Index.union: sorted, or the left index followed by what is new in the right
union(a, b, sort) ==
    IF sort THEN Ascending(Range(a) \cup Range(b))
    ELSE a \o SelectSeq(b, LAMBDA x : x \notin Range(a))

RECURSIVE union_indexes(_, _, _)
union_indexes(indexes, acc, sort) ==
    IF indexes = <<>> THEN acc
    ELSE union_indexes(Tail(indexes), union(acc, Head(indexes), sort), sort)

\* the cell of column c at label d after reindexing df; NaN where d is missing
Cell(df, d, c) ==
    IF \E i \in 1..Len(df) : df[i].index = d
    THEN df[CHOOSE i \in 1..Len(df) : df[i].index = d].cols[c]
    ELSE Null

Owner(dfs, c) == dfs[CHOOSE k \in 1..Len(dfs) : c \in Columns(dfs[k])]

\* the outer join of the tables dfs over the columns cols and the labels ix
Joined(dfs, cols, ix) ==
    IF \A k \in 1..Len(dfs) : IndexOf(dfs[k]) = IndexOf(dfs[1])
    THEN Ok(Rows([i \in 1..Len(dfs[1]) |->
                    [index |-> dfs[1][i].index,
                     cols |-> [c \in cols |-> Owner(dfs, c)[i].cols[c]]]]))
    ELSE IF \E k \in 1..Len(dfs) : HasDuplicates(IndexOf(dfs[k]))
    THEN Raise("InvalidIndexError")
    ELSE Ok(Rows([i \in 1..Len(ix) |->
                    [index |-> ix[i],
                     cols |-> [c \in cols |-> Cell(Owner(dfs, c), ix[i], c)]]]))

\* pd.concat(dfs, axis="columns"): outer join on the index
concat_columns(dfs, sort) ==
    Joined(dfs, UNION {Columns(dfs[k]) : k \in 1..Len(dfs)},
           union_indexes(Tail(Rows([k \in 1..Len(dfs) |-> IndexOf(dfs[k])])),
                         IF sort THEN Ascending(Range(IndexOf(dfs[1])))
                         ELSE IndexOf(dfs[1]), sort))

Digits == <<"0", "1", "2", "3", "4", "5", "6", "7", "8", "9">>

DigitValue(c) == (CHOOSE i \in 1..Len(Digits) : Digits[i] = c) - 1

RECURSIVE ParseDigits(_, _)
ParseDigits(s, acc) ==
    IF s = <<>> THEN acc ELSE ParseDigits(Tail(s), 10 * acc + DigitValue(Head(s)))

\* int(v): the number itself, the value of a string of digits, else ValueError
int(v) ==
    IF v.k = "num" THEN Ok(v.n)
    ELSE IF v.k = "str" /\ v.s # <<>> /\ Range(v.s) \subseteq Range(Digits)
    THEN Ok(ParseDigits(v.s, 0))
    ELSE Raise("ValueError")

FullDayMinutes == 1440

not_full_day_negated(n) == n = FullDayMinutes
not_full_day(n) == ~(n = FullDayMinutes)

\* df[~df.sedentary.astype(int).eq(1440)], asint the sedentary column as integers
WithoutFullDays(df, asint) ==
    IF \E i \in 1..Len(df) : ~asint[i].ok THEN Raise("ValueError")
    ELSE Ok(BoolIndex(df, [i \in 1..Len(df) |-> not_full_day(asint[i].val)]))

Filtered(joined) ==
    IF ~joined.ok THEN joined
    ELSE WithoutFullDays(joined.val,
                         Rows([i \in 1..Len(joined.val) |->
                                  int(joined.val[i].cols["sedentary"])]))

\* lines 304-306, on the results of the four files_to_df calls
LevelsTable(loaded, sort) ==
    IF \E k \in 1..Len(loaded) : ~loaded[k].ok THEN Raise("AttributeError")
    ELSE Filtered(concat_columns(Rows([k \in 1..Len(loaded) |-> loaded[k].val]), sort))

prep_activity_level_data ==
    /\ Callable("prep_activity_level_data", "")
    /\ WriteOne("prep_activity_level_data",
                "Processing *activity-level*_minutes-YYYY-MM-DD.json files ...",
                LevelsTable(
                    Rows([k \in 1..Len(Levels) |->
                        files_to_df(sorted(glob(raw, LevelStem(Levels[k]), "json")),
                                    [dateTime |-> "datetime",
                                     value |-> LevelColumn(Levels[k])], TRUE)]),
                    env.union_sorts),
                "activity_levels.csv", "File activity_levels.csv ready")

(***************************************************************************)
(* (D.2) Sleep.  An entry holds its scalar fields and "levels", an object  *)
(* with the stage timeline "data" and the leaves of "summary".             *)
(***************************************************************************)
\* the rows of json_normalize(json_data, record_path=[...]): the items of every
\* entry's list, entry after entry
RECURSIVE Items(_)
Items(lists) == IF lists = <<>> THEN <<>> ELSE Head(lists) \o Items(Tail(lists))

\* record_path=["levels", "data"]
Timelines(json_data) ==
    Rows([i \in 1..Len(json_data) |-> json_data[i]["levels"].data])

\* lines 208-214
SleepDetails(df) ==
    IF "datetime" \notin Columns(df) THEN Raise("AttributeError")
    ELSE Ok(sort_index(set_index(to_datetime_col(df, "datetime"), "datetime")))

\* lines 219-220: data["levels"] = data["levels"]["summary"]
summary_only(data) == [data EXCEPT !["levels"] = @.summary]

\* the column json_normalize(sep="_") gives a leaf of the object under "levels"
LevelsLeaf(leaf) ==
    CASE leaf = "deep_count" -> "levels_deep_count"
      [] leaf = "deep_minutes" -> "levels_deep_minutes"
      [] leaf = "deep_thirtyDayAvgMinutes" -> "levels_deep_thirtyDayAvgMinutes"
      [] leaf = "summary" -> "levels_summary"
      [] leaf = "data" -> "levels_data"

\* one entry as a row of json_normalize(json_data, sep="_")
Flat(data) ==
    [c \in (DOMAIN data \ {"levels"}) \cup {LevelsLeaf(l) : l \in DOMAIN data["levels"]} |->
        IF c \in DOMAIN data THEN data[c]
        ELSE data["levels"][CHOOSE l \in DOMAIN data["levels"] : LevelsLeaf(l) = c]]

\* columns_mapper of prep_sleep_data on the columns of the export
sleep_columns_mapper ==
    [c \in {"logId", "dateOfSleep", "startTime", "endTime", "duration",
            "minutesToFallAsleep", "minutesAsleep", "minutesAwake",
            "minutesAfterWakeup", "timeInBed", "efficiency", "mainSleep",
            "levels_deep_count", "levels_deep_minutes",
            "levels_deep_thirtyDayAvgMinutes", "levels_summary", "levels_data"} |->
        CASE c = "logId" -> "sleep_log_entry_id"
          [] c = "dateOfSleep" -> "date_of_sleep"
          [] c = "startTime" -> "start_time"
          [] c = "endTime" -> "end_time"
          [] c = "minutesToFallAsleep" -> "minutes_to_fall_asleep"
          [] c = "minutesAsleep" -> "minutes_asleep"
          [] c = "minutesAwake" -> "minutes_awake"
          [] c = "minutesAfterWakeup" -> "minutes_after_wakeup"
          [] c = "timeInBed" -> "time_in_bed"
          [] c = "mainSleep" -> "main_sleep"
          [] c = "levels_deep_count" -> "deep_count"
          [] c = "levels_deep_minutes" -> "deep_minutes"
          [] c = "levels_deep_thirtyDayAvgMinutes" -> "deep_30_day_avg_minutes"
          [] c = "levels_summary" -> "summary"
          [] c = "levels_data" -> "data"
          [] OTHER -> c]

drop(df, columns) ==
    IF ~(columns \subseteq Columns(df)) THEN Raise("KeyError")
    ELSE Ok(Rows([i \in 1..Len(df) |->
                    [index |-> df[i].index,
                     cols |-> [c \in DOMAIN df[i].cols \ columns |-> df[i].cols[c]]]]))

\* lines 245-249, on the renamed table
ByDateOfSleep(df) ==
    sort_index(set_index(
        to_datetime_col(to_datetime_col(to_datetime_col(df, "date_of_sleep"),
                                        "start_time"), "end_time"),
        "date_of_sleep"))

\* lines 240-249, on the list the loop of line 219 left
SleepOverviews(json_data) ==
    IF \E i \in 1..Len(json_data) : "deep_minutes" \notin DOMAIN json_data[i]["levels"]
    THEN Raise("KeyError")
    ELSE IF ~drop(json_normalize(Rows([i \in 1..Len(json_data) |-> Flat(json_data[i])])),
                  {"type", "infoCode"}).ok
    THEN Raise("KeyError")
    ELSE Ok(ByDateOfSleep(rename(
              drop(json_normalize(Rows([i \in 1..Len(json_data) |-> Flat(json_data[i])])),
                   {"type", "infoCode"}).val,
              sleep_columns_mapper)))

IsNumeral(v) == v.k = "str" /\ v.s # <<>> /\ Range(v.s) \subseteq Range(Digits)

\* pd.read_csv: one row per line; a column of numerals is read as numbers, a
\* timestamp stays the text it is
read_csv(dir, path) ==
    IF path \notin DOMAIN dir THEN Raise("FileNotFoundError")
    ELSE Ok(Rows([i \in 1..Len(dir[path]) |->
               [index |-> i - 1,
                cols |-> [c \in DOMAIN dir[path][i] |->
                    IF \A j \in 1..Len(dir[path]) : IsNumeral(dir[path][j][c])
                    THEN Num(ParseDigits(dir[path][i][c].s, 0))
                    ELSE IF dir[path][i][c].k = "time" THEN dir[path][i][c].s
                    ELSE dir[path][i][c]]]]))

\* lines 255-259, on what read_csv returned
SleepScores(res) ==
    IF ~res.ok THEN res
    ELSE Ok(sort_index(set_index(
              to_datetime_col(rename(res.val, [timestamp |-> "datetime"]), "datetime"),
              "datetime")))

SleepFiles == sorted(glob(raw, "sleep", "json"))

prep_sleep_data_load ==
    /\ Callable("prep_sleep_data", "")
    /\ Begin("prep_sleep_data", "", log("Processing sleep_YYYY-MM-DD.json files ..."),
             Loaded(files_to_json(SleepFiles),
                    SleepDetails(rename(
                        json_normalize(Items(Timelines(files_to_json(SleepFiles)))),
                        [dateTime |-> "datetime"]))),
             "details")

prep_sleep_data_write ==
    \/ /\ At("prep_sleep_data", "details")
       /\ WriteStep("sleep_details.csv", Ok(mem.df), mem.json_data, "details_ready")
    \/ /\ At("prep_sleep_data", "overviews")
       /\ WriteStep("sleep_overviews.csv",
                    SleepOverviews(Rows([i \in 1..Len(mem.json_data) |->
                                            summary_only(mem.json_data[i])])),
                    Rows([i \in 1..Len(mem.json_data) |->
                             summary_only(mem.json_data[i])]),
                    "overviews_ready")
    \/ /\ At("prep_sleep_data", "scores")
       /\ WriteStep("sleep_scores.csv",
                    SleepScores(read_csv(raw, File("sleep_score", 0, "csv"))),
                    mem.json_data, "scores_ready")

prep_sleep_data_log ==
    \/ /\ At("prep_sleep_data", "details_ready")
       /\ LogStep("File sleep_details.csv ready", "overviews")
    \/ /\ At("prep_sleep_data", "overviews_ready")
       /\ LogStep("File sleep_overviews.csv ready", "scores")
    \/ /\ At("prep_sleep_data", "scores_ready")
       /\ LogAndReturn("File sleep_scores.csv ready")

(***************************************************************************)
(* (D.3) Exercise.  An entry holds its scalar fields and, when the export  *)
(* gives them, the lists "activityLevel" and "heartRateZones".             *)
(***************************************************************************)
\* a string whose characters are not looked into
Text(w) == Str(<<w>>)

List(items) == [k |-> "list", items |-> items]

activity_level ==
    List(<<[minutes |-> Null, name |-> Text("sedentary")],
           [minutes |-> Null, name |-> Text("lightly")],
           [minutes |-> Null, name |-> Text("fairly")],
           [minutes |-> Null, name |-> Text("very")]>>)

heart_rate_zones ==
    List(<<[name |-> Text("Ausserhalb der Zone"), min |-> Null, max |-> Null,
            minutes |-> Null],
           [name |-> Text("Fettverbrennung"), min |-> Null, max |-> Null,
            minutes |-> Null],
           [name |-> Text("Kardio"), min |-> Null, max |-> Null, minutes |-> Null],
           [name |-> Text("Hoechstleistung"), min |-> Null, max |-> Null,
            minutes |-> Null]>>)

\* lines 338-341, on one item
with_default_always(item, key, default) == Without(item, key) @@ (key :> default)
with_default(item, key, default) ==
    IF key \notin DOMAIN item THEN item @@ (key :> default) ELSE item

backfill(json_data) ==
    Rows([i \in 1..Len(json_data) |->
            with_default(with_default(json_data[i], "activityLevel", activity_level),
                         "heartRateZones", heart_rate_zones)])

meta ==
    {"logId", "activityName", "activityTypeId", "averageHeartRate", "calories",
     "duration", "activeDuration", "steps", "lastModified", "startTime"}

exercise_columns ==
    [c \in {"logId", "activityName", "activityTypeId", "averageHeartRate",
            "activeDuration", "lastModified", "startTime"} |->
        CASE c = "logId" -> "log_id"
          [] c = "activityName" -> "activity_name"
          [] c = "activityTypeId" -> "activity_type_id"
          [] c = "averageHeartRate" -> "average_heart_rate"
          [] c = "activeDuration" -> "active_duration"
          [] c = "lastModified" -> "last_modified"
          [] c = "startTime" -> "start_time"]

\* the rows one entry gives: its records under record_path, each with the
\* entry's metadata (errors="ignore": NaN for a field the entry lacks)
Exploded(item, record_path) ==
    Rows([j \in 1..Len(item[record_path].items) |->
            item[record_path].items[j]
              @@ [m \in meta |-> IF m \in DOMAIN item THEN item[m] ELSE Null]])

\* lines 353-371 and 376-394: json_normalize(...).rename(...).set_index("log_id")
ExerciseTable(json_data, record_path) ==
    IF \E i \in 1..Len(json_data) : json_data[i][record_path].k # "list"
    THEN Raise("TypeError")
    ELSE IF json_data = <<>> THEN Raise("KeyError")
    ELSE Ok(set_index(
              rename(json_normalize(Items(Rows([i \in 1..Len(json_data) |->
                                                   Exploded(json_data[i], record_path)]))),
                     exercise_columns),
              "log_id"))

ExerciseFiles == sorted(glob(raw, "exercise", "json"))

prep_exercise_data_load ==
    /\ Callable("prep_exercise_data", "")
    /\ Begin("prep_exercise_data", "", log("Processing exercise-NNN.json files ..."),
             Loaded(backfill(files_to_json(ExerciseFiles)), Ok(<<>>)), "exercise_1")

prep_exercise_data_write ==
    \/ /\ At("prep_exercise_data", "exercise_1")
       /\ WriteStep("activity_exercise_1.csv",
                    ExerciseTable(mem.json_data, "activityLevel"), mem.json_data,
                    "exercise_1_ready")
    \/ /\ At("prep_exercise_data", "exercise_2")
       /\ WriteStep("activity_exercise_2.csv",
                    ExerciseTable(mem.json_data, "heartRateZones"), mem.json_data,
                    "exercise_2_ready")

prep_exercise_data_log ==
    \/ /\ At("prep_exercise_data", "exercise_1_ready")
       /\ LogStep("File activity_exercise_1.csv ready", "exercise_2")
    \/ /\ At("prep_exercise_data", "exercise_2_ready")
       /\ LogAndReturn("File activity_exercise_2.csv ready")

(***************************************************************************)
(* (D) Staging: collect_data copies the JSON files, then the CSV files,    *)
(* each loop in the order the file system lists them.                      *)
(***************************************************************************)
\* raw_data_path / file_path.name
keep_path(file_path) == file_path
flat(file_path) == [file_path EXCEPT !.dir = <<>>]

\* copy2(src, dst): dst holds the content of src, whether or not it existed
copy2(dir, dst, content) ==
    [f \in DOMAIN dir \cup {dst} |-> IF f = dst THEN content ELSE dir[f]]

Copy(file_path) ==
    /\ raw' = copy2(raw, flat(file_path), source[file_path])
    /\ wrote' = Append(wrote, file_path)
    /\ UNCHANGED <<source, out, console, pc, mem, last, env>>

collect_data_call ==
    /\ Callable("collect_data", "")
    /\ pc' = [routine |-> "collect_data", status |-> "running", step |-> "json",
              err |-> ""]
    /\ wrote' = <<>>
    /\ UNCHANGED <<source, raw, out, console, mem, last, env>>

collect_data_json ==
    /\ At("collect_data", "json")
    /\ \/ \E file_path \in rglob(source, "json") \ Range(wrote) : Copy(file_path)
       \/ /\ rglob(source, "json") \subseteq Range(wrote)
          /\ pc' = [pc EXCEPT !.step = "csv"]
          /\ UNCHANGED <<source, raw, out, console, mem, wrote, last, env>>

collect_data_csv ==
    /\ At("collect_data", "csv")
    /\ \/ \E file_path \in rglob(source, "csv") \ Range(wrote) : Copy(file_path)
       \/ /\ rglob(source, "csv") \subseteq Range(wrote)
          /\ Finish("collect_data", "", "done", "", out, console, wrote)

(***************************************************************************)
(* Initial states: the staged export of one metric, drawn from its         *)
(* records; the data directory is empty.                                   *)
(***************************************************************************)
OutFiles ==
    {"heart_rate.nc", "heart_rate.h5", "heart_rate.csv", "heart_rate_hourly.csv",
     "heart_rate_daily.csv", "heart_rate_zones.csv", "heart_rate_resting.csv",
     "sleep_details.csv", "sleep_overviews.csv", "sleep_scores.csv",
     "activity_steps.csv", "activity_distance.csv", "activity_levels.csv",
     "activity_exercise_1.csv", "activity_exercise_2.csv"}

SeqsUpTo(S, n) == UNION {[1..k -> S] : k \in 0..n}

\* two files of one pattern holding the records recs, cut after the first c
TwoFiles(stem, recs, c) ==
    [f \in {File(stem, 1, "json"), File(stem, 2, "json")} |->
        IF f.tag = 1 THEN SubSeq(recs, 1, c) ELSE SubSeq(recs, c + 1, Len(recs))]

StepValues == {Str(<<"0">>), Str(<<"0", ".", "0">>), Num(0), Str(<<"7">>)}
StepRecords == [dateTime : Stamps2, value : StepValues]

Staged(files, denied, union_sorts) ==
    /\ source = <<>>
    /\ raw = files
    /\ out = [f \in OutFiles |-> Absent]
    /\ console = <<>>
    /\ pc = Idle
    /\ mem = NoMem
    /\ wrote = <<>>
    /\ last = NoCall
    /\ env = [denied |-> denied, union_sorts |-> union_sorts]

InitSteps ==
    \E recs \in SeqsUpTo(StepRecords, MaxRecs) : \E c \in 0..Len(recs) :
        Staged(TwoFiles("steps", recs, c), {}, TRUE)

InitDistance ==
    \E recs \in SeqsUpTo(StepRecords, MaxRecs) : \E c \in 0..Len(recs) :
        Staged(TwoFiles("distance", recs, c), {}, TRUE)

ZoneRecords ==
    {("dateTime" :> s) @@ ("value.valuesInZones.IN_DEFAULT_ZONE_1" :> Num(30))
        @@ ("value.valuesInZones.BELOW_DEFAULT_ZONE_1" :> Num(1410)) : s \in Stamps}

InitZones ==
    \E recs \in SeqsUpTo(ZoneRecords, MaxRecs) : \E c \in 0..Len(recs) :
        Staged(TwoFiles("time_in_heart_rate_zones", recs, c), {}, TRUE)

\* the date of a resting heart rate is the day of its timestamp, or null
RestingRecords ==
    {("dateTime" :> s) @@ ("value.date" :> d) @@ ("value.value" :> Num(60))
        @@ ("value.error" :> Num(7)) :
        s \in Stamps, d \in {Null, <<12, 31, 22, 0>>}}

InitResting ==
    \E recs \in SeqsUpTo(RestingRecords, MaxRecs) : \E c \in 0..Len(recs) :
        Staged(TwoFiles("resting_heart_rate", recs, c), {}, TRUE)

\* one file per level, with at most one record for each day
SedentaryValues == {Str(<<"1", "4", "4", "0">>), Str(<<"1", "4", "3", "9">>)}

DistinctDays(recs) == ~HasDuplicates([i \in 1..Len(recs) |-> recs[i].dateTime])

LevelFiles(level, values) ==
    {[f \in {File(LevelStem(level), 1, "json")} |-> recs] :
        recs \in {r \in SeqsUpTo([dateTime : Stamps2, value : values],
                                 Cardinality(Stamps2)) : DistinctDays(r)}}

InitLevels ==
    \E sed \in LevelFiles("sedentary", SedentaryValues) :
    \E lig \in LevelFiles("lightly_active", {Str(<<"9">>)}) :
    \E mod \in LevelFiles("moderately_active", {Str(<<"8">>)}) :
    \E ver \in LevelFiles("very_active", {Str(<<"7">>)}) :
    \E union_sorts \in BOOLEAN :
        Staged(sed @@ lig @@ mod @@ ver, {}, union_sorts)

\* one file, or two files cut so that the second holds a record
OneOrTwoFiles(stem, recs, c) ==
    IF c = Len(recs) THEN [f \in {File(stem, 1, "json")} |-> recs]
    ELSE TwoFiles(stem, recs, c)

HeartRecords ==
    {("dateTime" :> s) @@ ("value.bpm" :> Num(b[1])) @@ ("value.confidence" :> Num(b[2])) :
        s \in Stamps, b \in {<<60, 2>>, <<75, 3>>}}

InitHeart ==
    \E recs \in SeqsUpTo(HeartRecords, MaxRecs) : \E c \in 0..Len(recs) :
    \E denied \in {{}, {"heart_rate_hourly.csv"}} :
        Staged(OneOrTwoFiles("heart_rate", recs, c), denied, TRUE)

SleepStage(s) == [dateTime |-> s, level |-> Str(<<"r", "e", "m">>), seconds |-> Num(30)]

SleepTimelines ==
    {<<>>, <<SleepStage(<<12, 31, 22, 23>>)>>,
     <<SleepStage(<<1, 1, 23, 0>>), SleepStage(<<12, 31, 22, 23>>)>>}

SleepEntry(day, timeline) ==
    [logId |-> Num(1), dateOfSleep |-> day, startTime |-> day, endTime |-> day,
     duration |-> Num(60), minutesToFallAsleep |-> Num(0), minutesAsleep |-> Num(50),
     minutesAwake |-> Num(10), minutesAfterWakeup |-> Num(0), timeInBed |-> Num(60),
     efficiency |-> Num(90), type |-> Str(<<"s">>), infoCode |-> Num(0),
     mainSleep |-> Num(1),
     levels |-> [summary |-> [deep_count |-> Num(1), deep_minutes |-> Num(20),
                              deep_thirtyDayAvgMinutes |-> Num(25)],
                 data |-> timeline]]

SleepEntries == {SleepEntry(day, timeline) : day \in Stamps2, timeline \in SleepTimelines}

ScoreRow(s) ==
    [timestamp |-> [k |-> "time", s |-> s, n |-> 0], overall_score |-> Str(<<"8", "0">>)]

\* sleep_score.csv: missing, or holding these rows
SleepScoreFiles ==
    {<<>>} \cup
    {[f \in {File("sleep_score", 0, "csv")} |-> rows] :
        rows \in {<<>>, <<ScoreRow(<<1, 1, 23, 0>>), ScoreRow(<<12, 31, 22, 23>>)>>}}

InitSleep ==
    \E recs \in SeqsUpTo(SleepEntries, MaxRecs) : \E c \in 0..Len(recs) :
    \E score \in SleepScoreFiles : \E denied \in {{}, {"sleep_overviews.csv"}} :
        Staged(TwoFiles("sleep", recs, c) @@ score, denied, TRUE)

OwnActivityLevel ==
    List(<<[minutes |-> Num(12), name |-> Text("sedentary")],
           [minutes |-> Num(3), name |-> Text("very")]>>)

OwnHeartRateZones ==
    List(<<[name |-> Text("Kardio"), min |-> Num(120), max |-> Num(150),
            minutes |-> Num(9)]>>)

ExerciseMeta(id) ==
    [logId |-> Num(id), activityName |-> Text("Walk"), activityTypeId |-> Num(90013),
     averageHeartRate |-> Num(100 + id), calories |-> Num(200), duration |-> Num(1800000),
     activeDuration |-> Num(1700000), steps |-> Num(2500),
     lastModified |-> <<1, 1, 23, 1>>, startTime |-> <<1, 1, 23, 0>>]

\* an entry may lack either list, and a faulty one gives a text for its zones
ExerciseEntries ==
    {ExerciseMeta(id) @@ al @@ hz :
        id \in {1, 2},
        al \in {<<>>, [activityLevel |-> OwnActivityLevel]},
        hz \in {<<>>, [heartRateZones |-> OwnHeartRateZones],
                [heartRateZones |-> Text("n/a")]}}

InitExercise ==
    \E recs \in SeqsUpTo(ExerciseEntries, MaxRecs) :
        Staged([f \in {File("exercise", 0, "json")} |-> recs], {}, TRUE)

Init ==
    \/ InitSteps
    \/ InitDistance
    \/ InitZones
    \/ InitResting
    \/ InitLevels
    \/ InitHeart
    \/ InitSleep
    \/ InitExercise

\* the unpacked export: files of one base name per suffix, in the source
\* directory itself and in folders below it; each holds what tells it apart
SourcePaths ==
    {[dir |-> d, stem |-> "steps", tag |-> 1, ext |-> e] :
        d \in {<<>>, <<"Sleep">>, <<"Physical Activity", "Old">>},
        e \in {"json", "csv", "txt"}}

\* what the raw directory holds before staging
RawBefore ==
    [f \in {File("steps", 1, "json"), File("steps", 1, "txt")} |-> <<"stale">>]

InitCollect ==
    \E paths \in SUBSET SourcePaths :
        /\ source = [f \in paths |-> <<"export", f.dir, f.ext>>]
        /\ raw = RawBefore
        /\ out = [f \in OutFiles |-> Absent]
        /\ console = <<>>
        /\ pc = Idle
        /\ mem = NoMem
        /\ wrote = <<>>
        /\ last = NoCall
        /\ env = [denied |-> {}, union_sorts |-> TRUE]

NextCollect ==
    \/ collect_data_call
    \/ collect_data_json
    \/ collect_data_csv

SpecCollect == InitCollect /\ [][NextCollect]_vars

\* files of one pattern, each a list of records, for files_to_json alone
MaxFiles == 3

InitLoad ==
    \E n \in 0..MaxFiles : \E lists \in [1..n -> SeqsUpTo({"a", "b"}, MaxRecs)] :
        /\ source = <<>>
        /\ raw = [f \in {File("steps", i, "json") : i \in 1..n} |-> lists[f.tag]]
        /\ out = [f \in OutFiles |-> Absent]
        /\ console = <<>>
        /\ pc = Idle
        /\ mem = NoMem
        /\ wrote = <<>>
        /\ last = NoCall
        /\ env = [denied |-> {}, union_sorts |-> TRUE]

call_files_to_json ==
    /\ pc.status = "idle"
    /\ pc' = [routine |-> "files_to_json", status |-> "done", step |-> "", err |-> ""]
    /\ mem' = [mem EXCEPT !.json_data = files_to_json(sorted(glob(raw, "steps", "json")))]
    /\ UNCHANGED <<source, raw, out, console, wrote, last, env>>

NextLoad == call_files_to_json

SpecLoad == InitLoad /\ [][NextLoad]_vars

Next ==
    \/ prep_steps_data
    \/ prep_distance_data
    \/ prep_heart_rate_zoning_data
    \/ prep_heart_rate_resting_data
    \/ prep_activity_level_data
    \/ prep_heart_rate_details_xr
    \/ prep_heart_rate_details_load
    \/ prep_heart_rate_details_write
    \/ prep_heart_rate_details_log
    \/ prep_sleep_data_load
    \/ prep_sleep_data_write
    \/ prep_sleep_data_log
    \/ prep_exercise_data_load
    \/ prep_exercise_data_write
    \/ prep_exercise_data_log

Spec == Init /\ [][Next]_vars


(***************************************************************************)
(* Properties.                                                             *)
(***************************************************************************)
Returned(routine) == pc.routine = routine /\ pc.status = "done"

\* the records of the staged files of one pattern, file after file
RECURSIVE Gather(_)
Gather(S) ==
    IF S = {} THEN <<>>
    ELSE LET f == CHOOSE x \in S : \A y \in S : x.tag <= y.tag
         IN raw[f] \o Gather(S \ {f})

Staging(stem) == Gather({f \in DOMAIN raw : f.stem = stem /\ f.ext = "json"})

Count(seq, Test(_)) == Cardinality({i \in 1..Len(seq) : Test(seq[i])})

\* the instant a timestamp text names
Instant(s) == ((s[3] * 12 + s[1] - 1) * 31 + s[2] - 1) * 24 + s[4]

NonDecreasing(f) ==
    \A i \in 1..(Len(out[f].rows) - 1) : out[f].rows[i].index <= out[f].rows[i + 1].index

TimeIndexed ==
    {"heart_rate.nc", "heart_rate.h5", "heart_rate.csv", "heart_rate_hourly.csv",
     "heart_rate_daily.csv", "heart_rate_zones.csv", "heart_rate_resting.csv",
     "sleep_details.csv", "sleep_overviews.csv", "sleep_scores.csv",
     "activity_steps.csv", "activity_distance.csv", "activity_levels.csv"}

\* C1: the time index of every consolidated time-indexed output is
\* non-decreasing, whatever the order of the files and of the records in them
C1_IndexSorted == \A f \in TimeIndexed : NonDecreasing(f)

\* the four level tables were joined from files listing a later day before an
\* earlier one, and both days are written
C1_Witness ==
    /\ Returned("prep_activity_level_data")
    /\ Len(out["activity_levels.csv"].rows) = 2
    /\ Len(Staging("sedentary_minutes")) = 2
    /\ Instant(Staging("sedentary_minutes")[1].dateTime)
         > Instant(Staging("sedentary_minutes")[2].dateTime)

\* C2: a steps or distance record is written if and only if its value is not
\* the string "0": every other record, "0.0" and the number 0 among them, is
\* written exactly once, under its instant
C2_Kept(stem, path, column) ==
    \A s \in Stamps2 : \A v \in StepValues :
        Count(out[path].rows, LAMBDA r : r.index = Instant(s) /\ r.cols[column] = v)
          = IF v = Str(<<"0">>) THEN 0
            ELSE Count(Staging(stem), LAMBDA x : x.dateTime = s /\ x.value = v)

C2_ZeroStringOnly ==
    /\ Returned("prep_steps_data") => C2_Kept("steps", "activity_steps.csv", "number")
    /\ Returned("prep_distance_data")
         => C2_Kept("distance", "activity_distance.csv", "distance")

C2_Witness ==
    /\ Returned("prep_steps_data")
    /\ \E i, j \in 1..Len(Staging("steps")) :
         /\ Staging("steps")[i].value = Str(<<"0">>)
         /\ Staging("steps")[j].value = Num(0)
    /\ Len(out["activity_steps.csv"].rows) = 1

\* C5: a resting heart rate record is written if and only if its date is not
\* null, exactly once and under the instant of its datetime
C5_NonNullDates ==
    Returned("prep_heart_rate_resting_data") =>
        /\ \A s \in Stamps :
             Count(out["heart_rate_resting.csv"].rows, LAMBDA r : r.index = Instant(s))
               = Count(Staging("resting_heart_rate"),
                       LAMBDA x : x.dateTime = s /\ x["value.date"] # Null)
        /\ \A i \in 1..Len(out["heart_rate_resting.csv"].rows) :
             \E j \in 1..Len(Staging("resting_heart_rate")) :
                 LET r == out["heart_rate_resting.csv"].rows[i]
                     x == Staging("resting_heart_rate")[j]
                 IN /\ x["value.date"] # Null
                    /\ r.index = Instant(x.dateTime)
                    /\ r.cols["date"] = Instant(x["value.date"])

C5_Witness ==
    /\ Returned("prep_heart_rate_resting_data")
    /\ \E i, j \in 1..Len(Staging("resting_heart_rate")) :
         /\ Staging("resting_heart_rate")[i]["value.date"] = Null
         /\ Staging("resting_heart_rate")[j]["value.date"] # Null
    /\ Len(out["heart_rate_resting.csv"].rows) = 1

LevelsFinished ==
    pc.routine = "prep_activity_level_data" /\ pc.status \in {"done", "error"}

HasRecord(level, d) ==
    \E i \in 1..Len(Staging(LevelStem(level))) :
        Instant(Staging(LevelStem(level))[i].dateTime) = d

\* the days of the outer join of the four level families
JoinDays == {d \in {Instant(s) : s \in Stamps} : \E k \in 1..4 : HasRecord(Levels[k], d)}

SedentaryIs(d, minutes) ==
    \E i \in 1..Len(Staging("sedentary_minutes")) :
        /\ Instant(Staging("sedentary_minutes")[i].dateTime) = d
        /\ Staging("sedentary_minutes")[i].value = Str(minutes)

RowsOn(d) ==
    {i \in 1..Len(out["activity_levels.csv"].rows) :
        out["activity_levels.csv"].rows[i].index = d}

Populated(i, level) == out["activity_levels.csv"].rows[i].cols[LevelColumn(level)] # Null

\* C3 as stated: every day of the join with 1440 sedentary minutes is absent
\* from activity_levels.csv, and every day with 1439 is present with all four
\* level columns populated
C3_AllFourPopulated ==
    LevelsFinished =>
        \A d \in JoinDays :
            /\ SedentaryIs(d, <<"1", "4", "4", "0">>) => RowsOn(d) = {}
            /\ SedentaryIs(d, <<"1", "4", "3", "9">>) =>
                 \E i \in RowsOn(d) : \A k \in 1..4 : Populated(i, Levels[k])

\* every family has a record, and every day of the join a sedentary record
LevelsComplete ==
    /\ \A k \in 1..4 : Len(Staging(LevelStem(Levels[k]))) > 0
    /\ \A d \in JoinDays : HasRecord("sedentary", d)

\* C3, amended: a day with 1440 sedentary minutes is never in
\* activity_levels.csv; when every family has a record and every day of the
\* join has a sedentary record, a day with 1439 is present once, a level column
\* of its row populated exactly when that family has a record for the day;
\* otherwise the routine raises and activity_levels.csv is not written
C3_PopulatedWhereRecorded ==
    LevelsFinished =>
        /\ \A d \in JoinDays : SedentaryIs(d, <<"1", "4", "4", "0">>) => RowsOn(d) = {}
        /\ LevelsComplete =>
             /\ pc.status = "done"
             /\ \A d \in JoinDays :
                  SedentaryIs(d, <<"1", "4", "3", "9">>) =>
                      /\ Cardinality(RowsOn(d)) = 1
                      /\ \A i \in RowsOn(d) : \A k \in 1..4 :
                           Populated(i, Levels[k]) <=> HasRecord(Levels[k], d)
        /\ ~LevelsComplete =>
             /\ pc.status = "error"
             /\ pc.err \in {"AttributeError", "ValueError"}
             /\ ~out["activity_levels.csv"].exists

\* a full day dropped next to a day of 1439 minutes that no lightly active
\* record covers
C3_Witness ==
    /\ Returned("prep_activity_level_data")
    /\ \E d, e \in JoinDays :
         /\ SedentaryIs(d, <<"1", "4", "4", "0">>)
         /\ SedentaryIs(e, <<"1", "4", "3", "9">>)
         /\ ~HasRecord("lightly_active", e)
         /\ \E i \in RowsOn(e) : ~Populated(i, "lightly_active")
         /\ RowsOn(d) = {}

Entries == Staging("exercise")

Lacks(i, key) == key \notin DOMAIN Entries[i]

\* the rows entry i gives under key: four placeholders, or one per record
RowsOf(i, key) == IF Lacks(i, key) THEN 4 ELSE Len(Entries[i][key].items)

RECURSIVE Before(_, _)
Before(i, key) == IF i = 1 THEN 0 ELSE Before(i - 1, key) + RowsOf(i - 1, key)

\* row r is labelled with the log id of entry e and carries its metadata
Carries(r, e) ==
    /\ r.index = e.logId
    /\ r.cols["activity_name"] = e.activityName
    /\ r.cols["activity_type_id"] = e.activityTypeId
    /\ r.cols["average_heart_rate"] = e.averageHeartRate
    /\ r.cols["calories"] = e.calories
    /\ r.cols["duration"] = e.duration
    /\ r.cols["active_duration"] = e.activeDuration
    /\ r.cols["steps"] = e.steps
    /\ r.cols["last_modified"] = e.lastModified
    /\ r.cols["start_time"] = e.startTime

LevelNames == <<"sedentary", "lightly", "fairly", "very">>

ZoneNames == <<"Ausserhalb der Zone", "Fettverbrennung", "Kardio", "Hoechstleistung">>

\* the rows of entry i in the table written to path, taken from key
C4_Rows(path, key, names, fields) ==
    /\ Len(out[path].rows) = Before(Len(Entries) + 1, key)
    /\ \A i \in 1..Len(Entries) : \A j \in 1..RowsOf(i, key) :
         LET r == out[path].rows[Before(i, key) + j]
         IN /\ Carries(r, Entries[i])
            /\ IF Lacks(i, key)
               THEN /\ r.cols["name"] = Text(names[j])
                    /\ \A c \in fields : r.cols[c] = Null
               ELSE /\ r.cols["name"] = Entries[i][key].items[j].name
                    /\ \A c \in fields : r.cols[c] = Entries[i][key].items[j][c]

\* C4: an entry without heartRateZones (activityLevel) gives exactly four rows
\* in activity_exercise_2.csv (activity_exercise_1.csv), one per placeholder
\* name in order, with null min, max and minutes (null minutes) and the
\* entry's own metadata; an entry with the field gives its own records
C4_Backfill ==
    /\ "activity_exercise_1.csv" \in Range(wrote) =>
         C4_Rows("activity_exercise_1.csv", "activityLevel", LevelNames, {"minutes"})
    /\ "activity_exercise_2.csv" \in Range(wrote) =>
         C4_Rows("activity_exercise_2.csv", "heartRateZones", ZoneNames,
                 {"min", "max", "minutes"})

\* two entries without zones share the placeholder list, next to one with its
\* own activity levels
C4_Witness ==
    /\ Returned("prep_exercise_data")
    /\ Len(Entries) = 2
    /\ Lacks(1, "heartRateZones") /\ Lacks(2, "heartRateZones")
    /\ Entries[1].logId # Entries[2].logId
    /\ Lacks(1, "activityLevel") /\ ~Lacks(2, "activityLevel")
    /\ Len(out["activity_exercise_2.csv"].rows) = 8
    /\ Len(out["activity_exercise_1.csv"].rows) = 6

\* C6: a routine run again on the same staged files leaves every output as
\* the previous run left it, and no step of a run changes a staged file
C6_Idempotent ==
    [][/\ raw' = raw
       /\ (pc'.status \in {"done", "error"} /\ last'.repeat) => out' = last.out]_vars

\* prep_sleep_data returned a second time, after replacing levels by summary
C6_Witness ==
    /\ Returned("prep_sleep_data")
    /\ last.repeat
    /\ Len(out["sleep_overviews.csv"].rows) > 0
    /\ Len(out["sleep_details.csv"].rows) > 0

FileAt(i) == File("steps", i, "json")

RECURSIVE Offset(_)
Offset(i) == IF i = 1 THEN 0 ELSE Offset(i - 1) + Len(raw[FileAt(i - 1)])

\* C8: files_to_json returns the lists of the files one after the other: as
\* long as all of them together, the records of an earlier file before those
\* of a later one, the records of a file in their order; no file, no record
C8_Concatenation ==
    pc.routine = "files_to_json" /\ pc.status = "done" =>
        /\ Len(mem.json_data) = Offset(Cardinality(DOMAIN raw) + 1)
        /\ \A i \in 1..Cardinality(DOMAIN raw) : \A j \in 1..Len(raw[FileAt(i)]) :
             mem.json_data[Offset(i) + j] = raw[FileAt(i)][j]
        /\ DOMAIN raw = {} => mem.json_data = <<>>

C8_Witness ==
    /\ pc.routine = "files_to_json" /\ pc.status = "done"
    /\ Cardinality(DOMAIN raw) = 3
    /\ raw[FileAt(1)] = <<"b", "a">>
    /\ raw[FileAt(2)] = <<>>
    /\ raw[FileAt(3)] = <<"a">>
    /\ mem.json_data = <<"b", "a", "a">>

\* the argument of the call that is running, or that ran last
CurrentArg == IF pc.status = "running" THEN mem.arg ELSE last.arg

HeartLoadFails ==
    \/ \A f \in DOMAIN raw : f.stem # "heart_rate"
    \/ \E f \in DOMAIN raw : f.stem = "heart_rate" /\ raw[f] = <<>>

\* C9: called with a fmt that is neither 'hdf' nor 'csv', prep_heart_rate_details
\* prints the warning and goes on: it loads the inputs, writes the detail table
\* as heart_rate.csv, never heart_rate.h5, then heart_rate_hourly.csv and
\* heart_rate_daily.csv, and fails only where fmt='csv' fails as well
C9_WarnsAndProceeds ==
    pc.routine = "prep_heart_rate_details" /\ CurrentArg \notin {"hdf", "csv"} =>
        /\ Len(console) >= 2
        /\ console[1] = "format should be 'hdf' (default) or 'csv'!"
        /\ console[2] = "Processing heart_rate-YYYY-MM-DD.json files ..."
        /\ "heart_rate.h5" \notin Range(wrote)
        /\ ~out["heart_rate.h5"].exists
        /\ pc.status = "done" =>
             /\ wrote = <<"heart_rate.csv", "heart_rate_hourly.csv", "heart_rate_daily.csv">>
             /\ \A i \in 1..3 : out[wrote[i]].exists
             /\ Len(out["heart_rate.csv"].rows) = Len(Staging("heart_rate"))
        /\ pc.status = "error" =>
             \/ pc.err = "PermissionError" /\ wrote # <<>> /\ env.denied # {}
             \/ HeartLoadFails /\ wrote = <<>>
        /\ pc.status # "error" => ~HeartLoadFails

C9_Witness ==
    /\ Returned("prep_heart_rate_details")
    /\ last.arg = "xlsx"
    /\ console[1] = "format should be 'hdf' (default) or 'csv'!"
    /\ Len(out["heart_rate.csv"].rows) = 2
    /\ out["heart_rate_daily.csv"].exists

Several == {"prep_sleep_data", "prep_heart_rate_details", "prep_exercise_data"}

\* the outputs of a routine in the order it writes them
Outputs(routine, fmt) ==
    CASE routine = "prep_sleep_data" ->
           <<"sleep_details.csv", "sleep_overviews.csv", "sleep_scores.csv">>
      [] routine = "prep_heart_rate_details" ->
           <<IF fmt = "hdf" THEN "heart_rate.h5" ELSE "heart_rate.csv",
             "heart_rate_hourly.csv", "heart_rate_daily.csv">>
      [] routine = "prep_exercise_data" ->
           <<"activity_exercise_1.csv", "activity_exercise_2.csv">>

ReadyLine(path) ==
    CASE path = "sleep_details.csv" -> "File sleep_details.csv ready"
      [] path = "sleep_overviews.csv" -> "File sleep_overviews.csv ready"
      [] path = "sleep_scores.csv" -> "File sleep_scores.csv ready"
      [] path = "heart_rate.h5" -> "File heart_rate.h5 ready"
      [] path = "heart_rate.csv" -> "File heart_rate.csv ready"
      [] path = "heart_rate_hourly.csv" -> "File heart_rate_hourly.csv ready"
      [] path = "heart_rate_daily.csv" -> "File heart_rate_daily.csv ready"
      [] path = "activity_exercise_1.csv" -> "File activity_exercise_1.csv ready"
      [] path = "activity_exercise_2.csv" -> "File activity_exercise_2.csv ready"

InOrder ==
    pc.routine \in Several =>
        /\ Len(wrote) <= Len(Outputs(pc.routine, CurrentArg))
        /\ wrote = SubSeq(Outputs(pc.routine, CurrentArg), 1, Len(wrote))
        /\ \A i \in 1..Len(Outputs(pc.routine, CurrentArg)) :
             ReadyLine(Outputs(pc.routine, CurrentArg)[i]) \in Range(console)
                => i <= Len(wrote) /\ out[wrote[i]].exists
        /\ pc.status = "done" => wrote = Outputs(pc.routine, CurrentArg)
        /\ pc.routine = "prep_sleep_data" /\ File("sleep_score", 0, "csv") \notin DOMAIN raw
             => /\ "sleep_scores.csv" \notin Range(wrote)
                /\ pc.status # "done"
                /\ ~out["sleep_scores.csv"].exists

StopsAtFailure ==
    pc.routine \in Several /\ pc.status = "running" =>
        /\ pc'.status = "error" => out' = out /\ wrote' = wrote /\ console' = console
        /\ \A f \in DOMAIN out : out'[f] # out[f] => wrote' = Append(wrote, f)

\* C10: a routine with several outputs writes them in its fixed order and
\* prints "File X ready" only once X is written; a step that fails ends the
\* routine, the outputs written before it keep what was written and the later
\* ones stay as they were
C10_OrderedWrites == []InOrder /\ [][StopsAtFailure]_vars

\* sleep_score.csv is missing: the first two outputs are written, the third not
C10_Witness ==
    /\ pc.routine = "prep_sleep_data" /\ pc.status = "error"
    /\ pc.err = "FileNotFoundError"
    /\ wrote = <<"sleep_details.csv", "sleep_overviews.csv">>
    /\ Len(out["sleep_overviews.csv"].rows) > 0
    /\ ~out["sleep_scores.csv"].exists
    /\ "File sleep_overviews.csv ready" \in Range(console)

BaseName(p) == [dir |-> <<>>, stem |-> p.stem, tag |-> p.tag, ext |-> p.ext]

Copies(n) == {i \in 1..Len(wrote) : BaseName(wrote[i]) = n}

\* the source file copied last under the name n
LastCopied(n) == wrote[CHOOSE i \in Copies(n) : \A j \in Copies(n) : j <= i]

Staged7 ==
    pc.routine = "collect_data" /\ pc.status = "done" =>
        /\ \A p \in DOMAIN source :
             p.ext \in {"json", "csv"} => BaseName(p) \in DOMAIN raw /\ p \in Range(wrote)
        /\ \A i \in 1..Len(wrote) :
             wrote[i] \in DOMAIN source /\ wrote[i].ext \in {"json", "csv"}
        /\ \A n \in DOMAIN raw :
             /\ n.dir = <<>>
             /\ IF Copies(n) # {} THEN raw[n] = source[LastCopied(n)]
                ELSE n \in DOMAIN RawBefore /\ raw[n] = RawBefore[n]
        /\ DOMAIN RawBefore \subseteq DOMAIN raw
        /\ \A i, j \in 1..Len(wrote) :
             wrote[i].ext = "csv" /\ wrote[j].ext = "json" => j < i

\* C7: after collect_data every .json and .csv file below the source
\* directory has a file of its base name in the raw directory, holding what
\* the file of that name copied last holds, all .json files copied before any
\* .csv file; no other file is copied, no folder made, no source file changed
C7_FlatCopy == []Staged7 /\ [][source' = source]_vars

\* two .json files of one base name, a .csv file and a .txt file
C7_Witness ==
    /\ pc.routine = "collect_data" /\ pc.status = "done"
    /\ Cardinality({p \in DOMAIN source : p.ext = "json"}) = 2
    /\ \E p \in DOMAIN source : p.ext = "csv" /\ p.dir # <<>>
    /\ \E p \in DOMAIN source : p.ext = "txt"
    /\ raw[File("steps", 1, "json")] # <<"stale">>
    /\ raw[File("steps", 1, "txt")] = <<"stale">>
    /\ Len(wrote) = 3

====
